---- MODULE Spec2Model ----
(***************************************************************************)
(* Arbitration logic of nmigen.lib.coding and nmigen.lib.arbiter.          *)
(*                                                                         *)
(* A bit vector is modelled by the set of the indices of its set bits; its *)
(* width is carried next to it wherever the source depends on the width.   *)
(* Cat(a, b) puts a in the low bits; x[:k] is the bits below k; x.bool()   *)
(* is "x is not empty"; an assignment to a narrower signal truncates.      *)
(* One step of a specification is one clock tick: the combinational        *)
(* outputs are computed from the inputs and the registers as of the tick,  *)
(* and the m.d.sync assignments become the registers of the next tick.     *)
(***************************************************************************)
EXTENDS Integers, FiniteSets, Sequences, TLC

\* Bounds of the model.
MaxWidth == 4
MaxReq == 3
MaxSelWidth == 6
MaxCodeWidth == 9

VARIABLES
    \* PrioritySelector (combinational)
    ps_width, ps_i, ps_o,
    \* RoundRobinSelector
    rr_policy, rr_n_reqs, rr_grant_prev,
    rr_i, rr_en, rr_o, rr_grant_prev_t,
    rr_ticks, rr_i_last, rr_en_last, rr_o_last,
    \* position in the walk of check_walk_withdraw
    wk_phase, wk_i,
    \* rounds lost in a row by each requester while it keeps requesting,
    \* and the count the latest grantee was released from
    rr_lost, rr_waited,
    \* FairAmongEqualsArbiter
    fa_n_req, fa_max_pri, fa_grant_prev, fa_i, fa_pri, fa_o, fa_lost,
    \* ProgPriorityArbiter (combinational)
    pp_n_req, pp_max_pri, pp_i, pp_pri, pp_o,
    \* RoundRobinArbiter, and the register the sync assignment to o writes
    ra_policy, ra_n_req, ra_grant_prev, ra_o, ra_o_reg,
    \* RoundRobinEncoder outputs (its robin submodule is the rr_ instance)
    re_o, re_n,
    \* RoundRobinSelector(n_reqs, policy): the arguments and the outcome
    ct_n_reqs, ct_policy, ct_result,
    \* Encoder (combinational)
    en_width, en_i, en_o, en_n,
    \* PriorityEncoder (combinational)
    pe_width, pe_i, pe_o, pe_n,
    \* Decoder (combinational); i is a binary number
    de_width, de_i, de_n, de_o,
    \* ReversibleSpec(GrayEncoder, GrayDecoder): dec.i = enc.o
    rv_width, rv_enc_i, rv_enc_o, rv_dec_o,
    \* HammingDistanceSpec(GrayEncoder): two encoders, enc1.i + 1 == enc2.i
    hd_width, hd_enc1_i, hd_enc2_i, hd_enc1_o, hd_enc2_o,
    \* RoundRobinSelector: whether the latest round had no request and the
    \* grant_prev it overwrote, after the tick and as of the tick
    id_idle, id_forgot, id_idle_t, id_forgot_t,
    \* a constructor call of another component: the class, the arguments,
    \* the outcome of __init__, the max_pri __init__ settled on, and the
    \* outcome of elaborate
    cx_class, cx_width, cx_policy, cx_max_pri, cx_result, cx_default, cx_elab

ps_vars == <<ps_width, ps_i, ps_o>>
rr_core == <<rr_policy, rr_n_reqs, rr_grant_prev, rr_i, rr_en, rr_o, rr_grant_prev_t>>
rr_hist == <<rr_ticks, rr_i_last, rr_en_last, rr_o_last>>
wk_vars == <<wk_phase, wk_i>>
lost_vars == <<rr_lost, rr_waited>>
fa_vars == <<fa_n_req, fa_max_pri, fa_grant_prev, fa_i, fa_pri, fa_o, fa_lost>>
pp_vars == <<pp_n_req, pp_max_pri, pp_i, pp_pri, pp_o>>
ra_vars == <<ra_policy, ra_n_req, ra_grant_prev, ra_o, ra_o_reg>>
re_vars == <<re_o, re_n>>
ct_vars == <<ct_n_reqs, ct_policy, ct_result>>
en_vars == <<en_width, en_i, en_o, en_n>>
pe_vars == <<pe_width, pe_i, pe_o, pe_n>>
de_vars == <<de_width, de_i, de_n, de_o>>
rv_vars == <<rv_width, rv_enc_i, rv_enc_o, rv_dec_o>>
hd_vars == <<hd_width, hd_enc1_i, hd_enc2_i, hd_enc1_o, hd_enc2_o>>
cd_vars == <<en_vars, pe_vars, de_vars, rv_vars, hd_vars>>
id_vars == <<id_idle, id_forgot, id_idle_t, id_forgot_t>>
cx_vars == <<cx_class, cx_width, cx_policy, cx_max_pri, cx_result, cx_default, cx_elab>>
vars == <<ps_vars, rr_core, rr_hist, wk_vars, lost_vars, fa_vars,
          pp_vars, ra_vars, re_vars, ct_vars, cd_vars, id_vars, cx_vars>>

Bits(width) == 0 .. (width - 1)

\* class RobinPolicy(Enum)
RobinPolicy == {"WITHDRAW", "CE"}

(***************************************************************************)
(* coding.py                                                               *)
(***************************************************************************)

\* Mutants of _smear_lx: inclusive smear; no smear at all.
_smear_lx_incl(signal, nbits) == {b \in Bits(nbits) : \E a \in signal : a <= b}

_smear_lx_none(signal, nbits) == {}

\* Cat(signal[:i].bool() for i in range(signal.nbits)):
\* bit i is set iff some bit strictly below i is set.
_smear_lx(signal, nbits) == {b \in Bits(nbits) : \E a \in signal : a < b}

\* Mutant of PrioritySelector: the deny mask is dropped.
PrioritySelector_nodeny(i, width) == i

\* Mutant of PrioritySelector: the deny mask is the smear from the top, so
\* that the most significant set bit survives.
PrioritySelector_msb(i, width) == {b \in i : \A a \in i : a <= b}

\* PrioritySelector.elaborate: o = i & ~deny, deny = _smear_lx(i).
PrioritySelector(i, width) == i \cap (Bits(width) \ _smear_lx(i, width))

\* Cat(lo, hi) where lo is lo_nbits wide.
Cat(lo, lo_nbits, hi) == lo \cup {b + lo_nbits : b \in hi}

\* req_unwrapped = Cat(self.i & _smear_lx(grant_prev), self.i)
rr_req_unwrapped(i, grant_prev, n_reqs) ==
    Cat(i \cap _smear_lx(grant_prev, n_reqs), n_reqs, i)

\* Mutant of rr_grant: the wrapped (upper) half is not folded back.
rr_grant_nowrap(i, grant_prev, n_reqs) ==
    LET psel_o == PrioritySelector(rr_req_unwrapped(i, grant_prev, n_reqs), n_reqs * 2)
    IN  {b \in psel_o : b < n_reqs}

\* psel = PrioritySelector(n_reqs * 2); psel.i = req_unwrapped;
\* grant = psel.o[:n_reqs] | psel.o[n_reqs:]
rr_grant(i, grant_prev, n_reqs) ==
    LET psel_o == PrioritySelector(rr_req_unwrapped(i, grant_prev, n_reqs), n_reqs * 2)
    IN  {b \in psel_o : b < n_reqs} \cup {b - n_reqs : b \in {c \in psel_o : c >= n_reqs}}

\* Mutant of rr_en_withdraw: a new round on every tick.
rr_en_withdraw_always(i, grant_prev) == TRUE

\* WITHDRAW: en = ~((self.i & grant_prev).bool())
rr_en_withdraw(i, grant_prev) == ~((i \cap grant_prev) # {})

\* Mutant of rr_o_comb: the fresh grant is output on hold ticks too.
rr_o_comb_fresh(en, grant, grant_prev) == grant

\* Mutant of rr_o_comb: the register is output on every tick.
rr_o_comb_stale(en, grant, grant_prev) == grant_prev

\* with m.If(en): comb o = grant;  with m.Else(): comb o = grant_prev
rr_o_comb(en, grant, grant_prev) == IF en THEN grant ELSE grant_prev

\* Mutant of rr_grant_prev_sync: a round that grants nobody is not committed.
rr_grant_prev_sync_keep(en, grant, grant_prev) ==
    IF en /\ grant # {} THEN grant ELSE grant_prev

\* Mutant of rr_grant_prev_sync: the register is committed on every tick.
rr_grant_prev_sync_always(en, grant, grant_prev) == grant

\* with m.If(en): sync grant_prev = grant; otherwise the register keeps its value
rr_grant_prev_sync(en, grant, grant_prev) == IF en THEN grant ELSE grant_prev

\* Signal(max=m) is bits_for(m - 1) bits wide: the least k >= 1 with 2^k > m - 1.
RECURSIVE bits_for(_)
bits_for(v) == IF v < 2 THEN 1 ELSE 1 + bits_for(v \div 2)

\* Encoder.o = Signal(max=max(2, width)): an assignment keeps the low bits.
Encoder_o_nbits(width) == bits_for((IF width > 2 THEN width ELSE 2) - 1)

\* Mutant of Encoder_o: the lowest set bit is encoded whatever else is set.
Encoder_o_lowest(i, width) ==
    IF i \cap Bits(width) # {}
    THEN (CHOOSE j \in i : \A k \in i : j <= k) % (2 ^ Encoder_o_nbits(width))
    ELSE 0

\* Encoder.elaborate: with m.Switch(self.i): Case(1 << j) for j in
\* range(width): o = j; a Signal no statement assigns reads 0.
Encoder_o(i, width) ==
    IF \E j \in Bits(width) : i = {j}
    THEN (CHOOSE j \in Bits(width) : i = {j}) % (2 ^ Encoder_o_nbits(width))
    ELSE 0

\* Mutant of Encoder_n: the default Case is missing.
Encoder_n_never(i, width) == FALSE

\* Encoder.elaborate: the default Case(), taken when no Case(1 << j) matches: n = 1.
Encoder_n(i, width) == ~(\E j \in Bits(width) : i = {j})

\* Mutant of PriorityEncoder_loop: range(width) is walked forwards.
RECURSIVE PriorityEncoder_loop_forward(_, _, _, _)
PriorityEncoder_loop_forward(i, j, o, width) ==
    IF j >= width THEN o
    ELSE PriorityEncoder_loop_forward(i, j + 1,
             IF j \in i THEN j % (2 ^ Encoder_o_nbits(width)) ELSE o, width)

\* PriorityEncoder.elaborate: for j in reversed(range(width)):
\*   with m.If(self.i[j]): o = j
\* The statements apply in program order, the last one that is active wins.
RECURSIVE PriorityEncoder_loop(_, _, _, _)
PriorityEncoder_loop(i, j, o, width) ==
    IF j < 0 THEN o
    ELSE PriorityEncoder_loop(i, j - 1,
             IF j \in i THEN j % (2 ^ Encoder_o_nbits(width)) ELSE o, width)

\* o = Signal(max=max(2, width)) reads 0 when no If is active.
PriorityEncoder_o(i, width) == PriorityEncoder_loop(i, width - 1, 0, width)

\* m.d.comb += self.n.eq(self.i == 0)
PriorityEncoder_n(i) == i = {}

\* Decoder.i = Signal(max=max(2, width))
Decoder_i_nbits(width) == bits_for((IF width > 2 THEN width ELSE 2) - 1)

\* Mutant of Decoder_o: the If on n is missing.
Decoder_o_nosuppress(i, n, width) == IF i \in Bits(width) THEN {i} ELSE {}

\* Decoder.elaborate: with m.Switch(self.i): Case(j) for j in range(len(o)):
\* o = 1 << j; then with m.If(self.n): o = 0.  i is a binary number; with
\* no matching Case o reads 0.
Decoder_o(i, n, width) ==
    IF n THEN {}
    ELSE IF i \in Bits(width) THEN {b \in {i} : b < width} ELSE {}

\* i[1:], the bits of i from bit 1 up, moved down by one.
SliceFrom1(i) == {b - 1 : b \in i \ {0}}

\* a ^ b
Xor(a, b) == (a \ b) \cup (b \ a)

\* Mutant of GrayEncoder_o: i ^ i[2:].
GrayEncoder_o_shift2(i, width) ==
    {b \in Xor(i, SliceFrom1(SliceFrom1(i))) : b < width}

\* GrayEncoder.elaborate: o = i ^ i[1:], assigned to a width-bit Signal.
GrayEncoder_o(i, width) == {b \in Xor(i, SliceFrom1(i)) : b < width}

\* GrayDecoder.elaborate: o[-1] = i[-1];
\* for k in reversed(range(width - 1)): o[k] = o[k + 1] ^ i[k]
RECURSIVE GrayDecoder_bit(_, _, _)
GrayDecoder_bit(i, k, width) ==
    IF k = width - 1 THEN k \in i
    ELSE GrayDecoder_bit(i, k + 1, width) # (k \in i)

GrayDecoder_o(i, width) == {k \in Bits(width) : GrayDecoder_bit(i, k, width)}

\* The number a bit vector holds (enc1.i + 1 in HammingDistanceSpec).
RECURSIVE ToInt(_)
ToInt(v) ==
    IF v = {} THEN 0
    ELSE LET b == CHOOSE x \in v : TRUE IN 2 ^ b + ToInt(v \ {b})

\* The width-bit vector that holds the low bits of a number.
FromInt(x, width) == {b \in Bits(width) : (x \div (2 ^ b)) % 2 = 1}

(***************************************************************************)
(* arbiter.py.  The module has its own copies of the helpers.  Names that  *)
(* elaborate uses and nothing binds are read as the one object they can    *)
(* denote: self.i and self.o are the request and grant vectors, n_req and  *)
(* self.max_pri the constructor's arguments, grant_unwrap (line 55) the    *)
(* grant_unwrapped of line 54, the generator handed to _priority_sel       *)
(* (line 215) the Cat of its bits, and nbits the width of the value it is  *)
(* asked of.  Everything else is taken as written.                         *)
(***************************************************************************)

\* An assignment to a Signal of nbits bits keeps the low nbits bits.
Truncate(v, nbits) == {b \in v : b < nbits}

Max2(a, b) == IF a >= b THEN a ELSE b

\* def _smear_lx(sig): Cat(sig[:i].bool() for i in range(sig.nbits))
arb_smear_lx(sig, nbits) == {b \in Bits(nbits) : \E a \in sig : a < b}

\* def _priority_sel(req): deny = _smear_lx(req); return req & ~deny
_priority_sel(req, nbits) == req \cap (Bits(nbits) \ arb_smear_lx(req, nbits))

\* def _rrobin_sel(req, prev_grant): req is req_nbits wide, prev_grant
\* pg_nbits wide; req & _smear_lx(prev_grant) has the wider of the widths.
_rrobin_sel(req, req_nbits, prev_grant, pg_nbits) ==
    LET req_above_prev == req \cap arb_smear_lx(prev_grant, pg_nbits)
        above_nbits == Max2(req_nbits, pg_nbits)
        req_unwrap == Cat(req_above_prev, above_nbits, req)
        grant_unwrapped == _priority_sel(req_unwrap, above_nbits + req_nbits)
    IN  {b \in grant_unwrapped : b < req_nbits}
            \cup {b - req_nbits : b \in {c \in grant_unwrapped : c >= req_nbits}}

\* def _bitmap_mux(sel, data, width):
\*   Cat((sel & Cat(data[i][j] for j in range(len(sel))).bool()) for i in range(width))
\* .bool() applies to the inner Cat, so element i is the sel_nbits-wide value
\* sel & b_i, with b_i the one-bit "some bit j < len(sel) of data[i] is set";
\* the outer Cat lays the elements side by side, sel_nbits bits apiece.
\* data is indexed by i in range(width) first, by j in range(len(sel)) second.
_bitmap_mux(sel, sel_nbits, data, width) ==
    UNION {{i * sel_nbits + b :
                b \in sel \cap (IF \E j \in Bits(sel_nbits) : j \in data[i]
                                THEN {0} ELSE {})} :
           i \in Bits(width)}

\* pri_decoded = [(1 << p)[:self.max_pri] for p in self.pri]
fa_pri_decoded(pri, max_pri) == [r \in DOMAIN pri |-> Truncate({pri[r]}, max_pri)]

\* req_levelled[p] = Cat(self.i[r] & pri_decoded[r][p] for r in range(self.n_req))
fa_req_levelled(i, pri, n_req, max_pri) ==
    [p \in Bits(max_pri) |->
        {r \in Bits(n_req) : r \in i /\ p \in fa_pri_decoded(pri, max_pri)[r]}]

\* highest_active_level = _priority_sel(level.bool() for level in req_levelled)
fa_highest_active_level(i, pri, n_req, max_pri) ==
    _priority_sel({p \in Bits(max_pri) : fa_req_levelled(i, pri, n_req, max_pri)[p] # {}},
                  max_pri)

\* level_muxed = _bitmap_mux(highest_active_level, req_levelled, n_req)
fa_level_muxed(i, pri, n_req, max_pri) ==
    _bitmap_mux(fa_highest_active_level(i, pri, n_req, max_pri), max_pri,
                fa_req_levelled(i, pri, n_req, max_pri), n_req)

\* grant = _rrobin_sel(level_muxed, grant_prev); level_muxed is
\* n_req * max_pri bits wide, grant_prev n_req bits.
fa_grant(i, pri, grant_prev, n_req, max_pri) ==
    _rrobin_sel(fa_level_muxed(i, pri, n_req, max_pri), n_req * max_pri,
                grant_prev, n_req)

\* ProgPriorityArbiter.elaborate computes pri_decoded, req_levelled,
\* highest_active_level and level_muxed by the same four statements as
\* FairAmongEqualsArbiter.elaborate.
pp_level_muxed(i, pri, n_req, max_pri) ==
    _bitmap_mux(fa_highest_active_level(i, pri, n_req, max_pri), max_pri,
                fa_req_levelled(i, pri, n_req, max_pri), n_req)

\* m.d.comb += self.o.eq(_priority_sel(level_muxed)); o is n_req bits wide.
pp_grant(i, pri, n_req, max_pri) ==
    Truncate(_priority_sel(pp_level_muxed(i, pri, n_req, max_pri), n_req * max_pri),
             n_req)

(***************************************************************************)
(* Initial state: every Signal resets to 0.                                *)
(***************************************************************************)
PsInit ==
    /\ ps_width \in 1 .. MaxSelWidth
    /\ ps_i = {}
    /\ ps_o = {}

RrInit ==
    /\ rr_policy \in RobinPolicy
    /\ rr_n_reqs \in 1 .. MaxWidth
    /\ rr_grant_prev = {}
    /\ rr_i = {}
    /\ rr_en = FALSE
    /\ rr_o = {}
    /\ rr_grant_prev_t = {}
    /\ rr_ticks = 0
    /\ rr_i_last = {}
    /\ rr_en_last = FALSE
    /\ rr_o_last = {}
    /\ wk_phase = 0
    /\ wk_i = 0
    /\ rr_lost = [r \in Bits(rr_n_reqs) |-> 0]
    /\ rr_waited = 0

\* FairAmongEqualsArbiter(n_req): max_pri is left at its default, n_req.
\* The priority inputs read 0 until the driver sets them.
FaInit ==
    /\ fa_n_req \in 1 .. MaxReq
    /\ fa_max_pri = fa_n_req
    /\ fa_grant_prev = {}
    /\ fa_i = {}
    /\ fa_pri = [r \in Bits(fa_n_req) |-> 0]
    /\ fa_o = {}
    /\ fa_lost = [r \in Bits(fa_n_req) |-> 0]

\* ProgPriorityArbiter(n_req): max_pri is left at its default, n_req.
PpInit ==
    /\ pp_n_req \in 1 .. MaxReq
    /\ pp_max_pri = pp_n_req
    /\ pp_i = {}
    /\ pp_pri = [r \in Bits(pp_n_req) |-> 0]
    /\ pp_o = {}

RaInit ==
    /\ ra_policy \in RobinPolicy
    /\ ra_n_req \in 1 .. MaxWidth
    /\ ra_grant_prev = {}
    /\ ra_o = {}
    /\ ra_o_reg = {}

\* The Encoder of RoundRobinEncoder, settled on robin.o = 0: no case of the
\* Switch matches, so n = 1.
ReInit ==
    /\ re_o = 0
    /\ re_n = TRUE

\* Python values handed to a constructor: the type and the value.
Arg(type, val) == [type |-> type, val |-> val]

\* In the specifications that start from a constructed RoundRobinSelector,
\* the constructor was called with the width and the policy of the instance.
CtIdle ==
    /\ ct_n_reqs = Arg("int", rr_n_reqs)
    /\ ct_policy = Arg("RobinPolicy", rr_policy)
    /\ ct_result = "ok"

\* A component that a specification does not exercise is held at width 1.
PsIdle == PsInit /\ ps_width = 1

RrIdle == RrInit /\ rr_n_reqs = 1 /\ rr_policy = "CE"

FaIdle == FaInit /\ fa_n_req = 1

PpIdle == PpInit /\ pp_n_req = 1

RaIdle == RaInit /\ ra_n_req = 1 /\ ra_policy = "CE"

\* Encoder(width), settled on i = 0: the default Case gives n = 1.
EnInit ==
    /\ en_width \in 1 .. MaxCodeWidth
    /\ en_i = {}
    /\ en_o = 0
    /\ en_n = TRUE

\* PriorityEncoder(width), settled on i = 0.
PeInit ==
    /\ pe_width \in 1 .. MaxCodeWidth
    /\ pe_i = {}
    /\ pe_o = 0
    /\ pe_n = TRUE

\* Decoder(width), settled on i = 0, n = 0: Case(0) gives o = 1.
DeInit ==
    /\ de_width \in 1 .. MaxCodeWidth
    /\ de_i = 0
    /\ de_n = FALSE
    /\ de_o = {0}

\* ReversibleSpec, settled on enc.i = 0.
RvInit ==
    /\ rv_width \in 1 .. MaxCodeWidth
    /\ rv_enc_i = {}
    /\ rv_enc_o = {}
    /\ rv_dec_o = {}

\* HammingDistanceSpec, settled on enc1.i = 0 and enc2.i = 1, the least
\* inputs that Assume(enc1.i + 1 == enc2.i) admits.
HdInit ==
    /\ hd_width \in 1 .. MaxCodeWidth
    /\ hd_enc1_i = {}
    /\ hd_enc2_i = {0}
    /\ hd_enc1_o = {}
    /\ hd_enc2_o = {0}

\* No round has run yet.
IdInit ==
    /\ id_idle = FALSE
    /\ id_forgot = {}
    /\ id_idle_t = FALSE
    /\ id_forgot_t = {}

\* No constructor of another component has been called.
CxInit ==
    /\ cx_class = "none"
    /\ cx_width = Arg("NoneType", 0)
    /\ cx_policy = Arg("NoneType", "None")
    /\ cx_max_pri = Arg("NoneType", 0)
    /\ cx_result = "none"
    /\ cx_default = 0
    /\ cx_elab = "none"

EnIdle == EnInit /\ en_width = 1

PeIdle == PeInit /\ pe_width = 1

DeIdle == DeInit /\ de_width = 1

RvIdle == RvInit /\ rv_width = 1

HdIdle == HdInit /\ hd_width = 1

CdIdle == EnIdle /\ PeIdle /\ DeIdle /\ RvIdle /\ HdIdle

Init ==
    /\ PsInit /\ RrInit /\ FaInit /\ PpInit /\ RaInit /\ ReInit /\ CtIdle
    /\ EnInit /\ PeInit /\ DeInit /\ RvInit /\ HdInit /\ IdInit /\ CxInit

(***************************************************************************)
(* PrioritySelector: the driver presents an input, o settles in the same   *)
(* step.                                                                   *)
(***************************************************************************)
PsDrive(r) ==
    /\ ps_i' = r
    /\ ps_o' = PrioritySelector(r, ps_width)
    /\ UNCHANGED ps_width

PsNext ==
    /\ \E r \in SUBSET Bits(ps_width) : PsDrive(r)
    /\ UNCHANGED <<rr_core, rr_hist, wk_vars, lost_vars, fa_vars, pp_vars, ra_vars, re_vars, ct_vars, cd_vars,
                   id_vars, cx_vars>>

InitPSel == PsInit /\ RrIdle /\ FaIdle /\ PpIdle /\ RaIdle /\ ReInit /\ CtIdle /\ CdIdle /\ IdInit /\ CxInit

SpecPSel == InitPSel /\ [][PsNext]_vars

(***************************************************************************)
(* RoundRobinSelector: one clock tick with request vector req and the      *)
(* local en of elaborate (the enable input under CE).                      *)
(***************************************************************************)
RrTick(req, en) ==
    LET grant == rr_grant(req, rr_grant_prev, rr_n_reqs)
    IN  /\ rr_i' = req
        /\ rr_en' = en
        /\ rr_o' = rr_o_comb(en, grant, rr_grant_prev)
        /\ rr_grant_prev' = rr_grant_prev_sync(en, grant, rr_grant_prev)
        /\ rr_grant_prev_t' = rr_grant_prev
        /\ UNCHANGED <<rr_policy, rr_n_reqs>>

RrTickWithdraw(req) ==
    /\ rr_policy = "WITHDRAW"
    /\ RrTick(req, rr_en_withdraw(req, rr_grant_prev))

RrTickCE(req, e) ==
    /\ rr_policy = "CE"
    /\ RrTick(req, e)

\* The values of the tick before become the "last" values.
RrHist ==
    /\ rr_ticks' = IF rr_ticks < 2 THEN rr_ticks + 1 ELSE rr_ticks
    /\ rr_i_last' = rr_i
    /\ rr_en_last' = rr_en
    /\ rr_o_last' = rr_o

RrWithdrawStep ==
    /\ \E req \in SUBSET Bits(rr_n_reqs) : RrTickWithdraw(req)
    /\ RrHist
    /\ UNCHANGED <<ps_vars, wk_vars, lost_vars, fa_vars, pp_vars, ra_vars, re_vars, ct_vars, cd_vars,
                   id_vars, cx_vars>>

RrCEStep ==
    /\ \E req \in SUBSET Bits(rr_n_reqs), e \in BOOLEAN : RrTickCE(req, e)
    /\ RrHist
    /\ UNCHANGED <<ps_vars, wk_vars, lost_vars, fa_vars, pp_vars, ra_vars, re_vars, ct_vars, cd_vars,
                   id_vars, cx_vars>>

RrNext == RrWithdrawStep \/ RrCEStep

InitRR == RrInit /\ PsIdle /\ FaIdle /\ PpIdle /\ RaIdle /\ ReInit /\ CtIdle /\ CdIdle /\ IdInit /\ CxInit

SpecRR == InitRR /\ [][RrNext]_vars

(***************************************************************************)
(* The walk of check_walk_withdraw, followed on an arbitrary request       *)
(* sequence: an idle tick (phase 1), request[i] alone (2), request[i] and  *)
(* request[j] with j = (i + 1) % width (3), request[j] alone (4), no       *)
(* request (5, which is an idle tick again).  Phase 0: not in a walk.      *)
(***************************************************************************)
WalkJ == (wk_i + 1) % rr_n_reqs

WalkPhase(req) ==
    CASE wk_phase \in {1, 5} /\ Cardinality(req) = 1 /\ rr_n_reqs >= 2 -> 2
      [] wk_phase = 2 /\ req = {wk_i, WalkJ} -> 3
      [] wk_phase = 3 /\ req = {WalkJ} -> 4
      [] wk_phase = 4 /\ req = {} -> 5
      [] OTHER -> IF req = {} THEN 1 ELSE 0

WalkTrack(req) ==
    /\ wk_phase' = WalkPhase(req)
    /\ wk_i' = IF WalkPhase(req) = 2 /\ wk_phase \in {1, 5}
              THEN CHOOSE r \in req : TRUE
              ELSE wk_i

WalkStep ==
    /\ \E req \in SUBSET Bits(rr_n_reqs) : RrTickWithdraw(req) /\ WalkTrack(req)
    /\ UNCHANGED <<ps_vars, rr_hist, lost_vars, fa_vars, pp_vars, ra_vars, re_vars, ct_vars, cd_vars,
                   id_vars, cx_vars>>

InitWalk == InitRR /\ rr_policy = "WITHDRAW"

SpecWalk == InitWalk /\ [][WalkStep]_vars

(***************************************************************************)
(* Rounds lost in a row: a requester that is not asserted, or that is      *)
(* granted, starts again at 0; one that is asserted and not granted in a   *)
(* round (a tick with en true) has lost one more round.  Ticks without a   *)
(* round leave the count of a waiting requester as it is.  The count stops *)
(* at the width.                                                           *)
(***************************************************************************)
LostTrack(req) ==
    /\ rr_waited' = IF rr_en' /\ rr_o' # {} /\ rr_o' \subseteq Bits(rr_n_reqs)
                         /\ rr_o' \subseteq req
                    THEN rr_lost[CHOOSE r \in rr_o' : TRUE]
                    ELSE 0
    /\ rr_lost' = [r \in Bits(rr_n_reqs) |->
                     IF r \notin req \/ r \in rr_o' THEN 0
                     ELSE IF ~rr_en' THEN rr_lost[r]
                     ELSE IF rr_lost[r] < rr_n_reqs THEN rr_lost[r] + 1
                     ELSE rr_lost[r]]

LostWithdrawStep ==
    /\ \E req \in SUBSET Bits(rr_n_reqs) : RrTickWithdraw(req) /\ LostTrack(req)
    /\ UNCHANGED <<ps_vars, rr_hist, wk_vars, fa_vars, pp_vars, ra_vars, re_vars, ct_vars, cd_vars,
                   id_vars, cx_vars>>

LostCEStep ==
    /\ \E req \in SUBSET Bits(rr_n_reqs), e \in BOOLEAN : RrTickCE(req, e) /\ LostTrack(req)
    /\ UNCHANGED <<ps_vars, rr_hist, wk_vars, fa_vars, pp_vars, ra_vars, re_vars, ct_vars, cd_vars,
                   id_vars, cx_vars>>

LostNext == LostWithdrawStep \/ LostCEStep

SpecLost == InitRR /\ [][LostNext]_vars

(***************************************************************************)
(* FairAmongEqualsArbiter: one clock tick with request vector req and      *)
(* priority levels pri, each in [0, max_pri).  comb o = grant and          *)
(* sync grant_prev = grant, both n_req bits wide, on every tick.           *)
(***************************************************************************)
FaTick(req, pri) ==
    LET grant == fa_grant(req, pri, fa_grant_prev, fa_n_req, fa_max_pri)
    IN  /\ fa_i' = req
        /\ fa_pri' = pri
        /\ fa_o' = Truncate(grant, fa_n_req)
        /\ fa_grant_prev' = Truncate(grant, fa_n_req)
        /\ UNCHANGED <<fa_n_req, fa_max_pri>>

\* Ticks lost in a row by each requester while it keeps requesting; every
\* tick is a round.  The count stops at the width.
FaLostTrack(req) ==
    fa_lost' = [r \in Bits(fa_n_req) |->
                  IF r \notin req \/ r \in fa_o' THEN 0
                  ELSE IF fa_lost[r] < fa_n_req THEN fa_lost[r] + 1
                  ELSE fa_lost[r]]

FaStep ==
    /\ \E req \in SUBSET Bits(fa_n_req), pri \in [Bits(fa_n_req) -> Bits(fa_max_pri)] :
          FaTick(req, pri) /\ FaLostTrack(req)
    /\ UNCHANGED <<ps_vars, rr_core, rr_hist, wk_vars, lost_vars,
                   pp_vars, ra_vars, re_vars, ct_vars, cd_vars,
                   id_vars, cx_vars>>

InitFair == FaInit /\ PsIdle /\ RrIdle /\ PpIdle /\ RaIdle /\ ReInit /\ CtIdle /\ CdIdle /\ IdInit /\ CxInit

SpecFair == InitFair /\ [][FaStep]_vars

(***************************************************************************)
(* ProgPriorityArbiter: combinational, so one step is one evaluation of    *)
(* the outputs on freshly driven request and priority inputs.              *)
(***************************************************************************)
PpEval(req, pri) ==
    /\ pp_i' = req
    /\ pp_pri' = pri
    /\ pp_o' = pp_grant(req, pri, pp_n_req, pp_max_pri)
    /\ UNCHANGED <<pp_n_req, pp_max_pri>>

PpStep ==
    /\ \E req \in SUBSET Bits(pp_n_req), pri \in [Bits(pp_n_req) -> Bits(pp_max_pri)] :
          PpEval(req, pri)
    /\ UNCHANGED <<ps_vars, rr_core, rr_hist, wk_vars, lost_vars, fa_vars,
                   ra_vars, re_vars, ct_vars, cd_vars,
                   id_vars, cx_vars>>

InitProg == PpInit /\ PsIdle /\ RrIdle /\ FaIdle /\ RaIdle /\ ReInit /\ CtIdle /\ CdIdle /\ IdInit /\ CxInit

SpecProg == InitProg /\ [][PpStep]_vars

(***************************************************************************)
(* RoundRobinArbiter (arbiter.py) run in lockstep with RoundRobinSelector  *)
(* (coding.py): same width, same policy, same inputs on every tick.        *)
(*                                                                         *)
(* With en true, o is driven combinationally from grant.  In the Else      *)
(* branch the only assignment to o is in the sync domain, so o is a        *)
(* register there: during a hold tick it shows what it stores and takes    *)
(* grant_prev on the clock edge that ends the tick.  What o stores after a *)
(* tick with en true is not fixed by arbiter.py (no sync assignment to o   *)
(* is active on that tick): it is either the value stored before or the    *)
(* value driven during the tick.                                           *)
(***************************************************************************)
RaTick(req, en) ==
    LET grant == _rrobin_sel(req, ra_n_req, ra_grant_prev, ra_n_req)
    IN  /\ ra_grant_prev' = (IF en THEN grant ELSE ra_grant_prev)
        /\ ra_o' = (IF en THEN grant ELSE ra_o_reg)
        /\ ra_o_reg' \in (IF en THEN {ra_o_reg, grant} ELSE {ra_grant_prev})
        /\ UNCHANGED <<ra_policy, ra_n_req>>

\* else: en = ~((self.i & grant_prev).bool())
ra_en_withdraw(i, grant_prev) == ~((i \cap grant_prev) # {})

EquivWithdrawStep ==
    /\ \E req \in SUBSET Bits(rr_n_reqs) :
          /\ RrTickWithdraw(req)
          /\ ra_policy = "WITHDRAW"
          /\ RaTick(req, ra_en_withdraw(req, ra_grant_prev))
    /\ RrHist
    /\ UNCHANGED <<ps_vars, wk_vars, lost_vars, fa_vars, pp_vars, re_vars, ct_vars, cd_vars,
                   id_vars, cx_vars>>

EquivCEStep ==
    /\ \E req \in SUBSET Bits(rr_n_reqs), e \in BOOLEAN :
          /\ RrTickCE(req, e)
          /\ ra_policy = "CE"
          /\ RaTick(req, e)
    /\ RrHist
    /\ UNCHANGED <<ps_vars, wk_vars, lost_vars, fa_vars, pp_vars, re_vars, ct_vars, cd_vars,
                   id_vars, cx_vars>>

EquivNext == EquivWithdrawStep \/ EquivCEStep

InitEquiv ==
    /\ RrInit /\ RaInit
    /\ ra_n_req = rr_n_reqs
    /\ ra_policy = rr_policy
    /\ PsIdle /\ FaIdle /\ PpIdle /\ ReInit /\ CtIdle /\ CdIdle /\ IdInit /\ CxInit

SpecEquiv == InitEquiv /\ [][EquivNext]_vars

(***************************************************************************)
(* RoundRobinEncoder: its submodule robin is a RoundRobinSelector of the   *)
(* same width and policy fed the encoder's i and en; enc.i = robin.o,      *)
(* o = enc.o and n = enc.n, all combinational.                             *)
(***************************************************************************)
ReOutputs ==
    /\ re_o' = Encoder_o(rr_o', rr_n_reqs)
    /\ re_n' = Encoder_n(rr_o', rr_n_reqs)

EncWithdrawStep ==
    /\ \E req \in SUBSET Bits(rr_n_reqs) : RrTickWithdraw(req)
    /\ ReOutputs
    /\ RrHist
    /\ UNCHANGED <<ps_vars, wk_vars, lost_vars, fa_vars, pp_vars, ra_vars, ct_vars, cd_vars,
                   id_vars, cx_vars>>

EncCEStep ==
    /\ \E req \in SUBSET Bits(rr_n_reqs), e \in BOOLEAN : RrTickCE(req, e)
    /\ ReOutputs
    /\ RrHist
    /\ UNCHANGED <<ps_vars, wk_vars, lost_vars, fa_vars, pp_vars, ra_vars, ct_vars, cd_vars,
                   id_vars, cx_vars>>

EncNext == EncWithdrawStep \/ EncCEStep

InitEnc == RrInit /\ ReInit /\ PsIdle /\ FaIdle /\ PpIdle /\ RaIdle /\ CtIdle /\ CdIdle /\ IdInit /\ CxInit

SpecEnc == InitEnc /\ [][EncNext]_vars

(***************************************************************************)
(* RoundRobinSelector(n_reqs, policy): the constructor call.  An argument  *)
(* is a Python value, Arg(type, val); bool is a subclass of int, with      *)
(* True = 1 and False = 0.                                                 *)
(***************************************************************************)
isinstance(a, cls) == a.type = cls \/ (cls = "int" /\ a.type = "bool")

\* The widths and the policies the constructor is called with.
CtorWidths ==
    {Arg("int", v) : v \in -1 .. MaxWidth} \cup {Arg("bool", v) : v \in 0 .. 1}
        \cup {Arg("float", v) : v \in 0 .. 2} \cup {Arg("str", 1), Arg("NoneType", 0)}

CtorPolicies ==
    {Arg("RobinPolicy", p) : p \in RobinPolicy}
        \cup {Arg("int", "0"), Arg("str", "WITHDRAW"), Arg("str", "CE"),
              Arg("NoneType", "None")}

\* Mutant of RoundRobinSelector_init: the width check is n_reqs < 0.
RoundRobinSelector_init_nonneg(n_reqs, policy) ==
    IF ~isinstance(policy, "RobinPolicy") THEN "TypeError"
    ELSE IF ~isinstance(n_reqs, "int") \/ n_reqs.val < 0 THEN "TypeError"
    ELSE "ok"

\* if not isinstance(policy, RobinPolicy): raise TypeError
\* if not isinstance(n_reqs, int) or n_reqs < 1: raise TypeError
RoundRobinSelector_init(n_reqs, policy) ==
    IF ~isinstance(policy, "RobinPolicy") THEN "TypeError"
    ELSE IF ~isinstance(n_reqs, "int") \/ n_reqs.val < 1 THEN "TypeError"
    ELSE "ok"

\* Before the call there is no instance.
NoInstance ==
    /\ rr_policy = "none"
    /\ rr_n_reqs = 0
    /\ rr_grant_prev = {} /\ rr_i = {} /\ rr_en = FALSE /\ rr_o = {}
    /\ rr_grant_prev_t = {} /\ rr_ticks = 0
    /\ rr_i_last = {} /\ rr_en_last = FALSE /\ rr_o_last = {}
    /\ wk_phase = 0 /\ wk_i = 0
    /\ rr_lost = [r \in {} |-> 0] /\ rr_waited = 0

\* The call: a raise leaves no instance; otherwise self.n_reqs and
\* self.policy are set and the Signals are created, reading 0.
Construct(n_reqs, policy) ==
    /\ ct_result = "none"
    /\ ct_n_reqs' = n_reqs
    /\ ct_policy' = policy
    /\ ct_result' = RoundRobinSelector_init(n_reqs, policy)
    /\ IF ct_result' = "ok"
       THEN /\ rr_n_reqs' = n_reqs.val
            /\ rr_policy' = policy.val
            /\ rr_lost' = [r \in Bits(n_reqs.val) |-> 0]
            /\ UNCHANGED <<rr_grant_prev, rr_i, rr_en, rr_o, rr_grant_prev_t,
                           rr_hist, wk_vars, rr_waited>>
       ELSE UNCHANGED <<rr_core, rr_hist, wk_vars, lost_vars>>

CtorStep ==
    /\ \E n_reqs \in CtorWidths, policy \in CtorPolicies : Construct(n_reqs, policy)
    /\ UNCHANGED <<ps_vars, fa_vars, pp_vars, ra_vars, re_vars, cd_vars,
                   id_vars, cx_vars>>

\* Only a constructed instance is clocked.
CtorWithdrawTick == ct_result = "ok" /\ RrWithdrawStep

CtorCETick == ct_result = "ok" /\ RrCEStep

CtorNext == CtorStep \/ CtorWithdrawTick \/ CtorCETick

InitCtor ==
    /\ NoInstance
    /\ ct_n_reqs = Arg("NoneType", 0)
    /\ ct_policy = Arg("NoneType", "None")
    /\ ct_result = "none"
    /\ PsIdle /\ FaIdle /\ PpIdle /\ RaIdle /\ ReInit /\ CdIdle /\ IdInit /\ CxInit

SpecCtor == InitCtor /\ [][CtorNext]_vars

(***************************************************************************)
(* RoundRobinSelector with the idle rounds recorded: a round (en true)     *)
(* with no request is idle, and id_forgot is the grant_prev that the       *)
(* latest run of idle rounds overwrote.                                    *)
(***************************************************************************)
IdleTrack ==
    /\ id_idle_t' = id_idle
    /\ id_forgot_t' = id_forgot
    /\ id_idle' = (IF rr_en' THEN rr_i' = {} ELSE id_idle)
    /\ id_forgot' = (IF ~rr_en' THEN id_forgot
                     ELSE IF rr_i' # {} THEN {}
                     ELSE IF id_idle THEN id_forgot ELSE rr_grant_prev)

IdleWithdrawStep ==
    /\ \E req \in SUBSET Bits(rr_n_reqs) : RrTickWithdraw(req)
    /\ RrHist
    /\ IdleTrack
    /\ UNCHANGED <<ps_vars, wk_vars, lost_vars, fa_vars, pp_vars, ra_vars, re_vars,
                   ct_vars, cd_vars, cx_vars>>

IdleCEStep ==
    /\ \E req \in SUBSET Bits(rr_n_reqs), e \in BOOLEAN : RrTickCE(req, e)
    /\ RrHist
    /\ IdleTrack
    /\ UNCHANGED <<ps_vars, wk_vars, lost_vars, fa_vars, pp_vars, ra_vars, re_vars,
                   ct_vars, cd_vars, cx_vars>>

IdleNext == IdleWithdrawStep \/ IdleCEStep

SpecIdle == InitRR /\ [][IdleNext]_vars

(***************************************************************************)
(* The combinational coders of coding.py.  One step drives the inputs of   *)
(* one component and lets its outputs settle.                              *)
(***************************************************************************)
RestIdle ==
    /\ PsIdle /\ RrIdle /\ FaIdle /\ PpIdle /\ RaIdle /\ ReInit /\ CtIdle
    /\ IdInit /\ CxInit

rest_vars == <<ps_vars, rr_core, rr_hist, wk_vars, lost_vars, fa_vars,
               pp_vars, ra_vars, re_vars, ct_vars, id_vars, cx_vars>>

EnDrive(i) ==
    /\ en_i' = i
    /\ en_o' = Encoder_o(i, en_width)
    /\ en_n' = Encoder_n(i, en_width)
    /\ UNCHANGED en_width

EnStep ==
    /\ \E i \in SUBSET Bits(en_width) : EnDrive(i)
    /\ UNCHANGED <<rest_vars, pe_vars, de_vars, rv_vars, hd_vars>>

InitEncoder == EnInit /\ PeIdle /\ DeIdle /\ RvIdle /\ HdIdle /\ RestIdle

SpecEncoder == InitEncoder /\ [][EnStep]_vars

PeDrive(i) ==
    /\ pe_i' = i
    /\ pe_o' = PriorityEncoder_o(i, pe_width)
    /\ pe_n' = PriorityEncoder_n(i)
    /\ UNCHANGED pe_width

PeStep ==
    /\ \E i \in SUBSET Bits(pe_width) : PeDrive(i)
    /\ UNCHANGED <<rest_vars, en_vars, de_vars, rv_vars, hd_vars>>

InitPriorityEncoder == PeInit /\ EnIdle /\ DeIdle /\ RvIdle /\ HdIdle /\ RestIdle

SpecPriorityEncoder == InitPriorityEncoder /\ [][PeStep]_vars

\* i takes every value its Signal can hold.
DeDrive(i, n) ==
    /\ de_i' = i
    /\ de_n' = n
    /\ de_o' = Decoder_o(i, n, de_width)
    /\ UNCHANGED de_width

DeStep ==
    /\ \E i \in 0 .. (2 ^ Decoder_i_nbits(de_width) - 1), n \in BOOLEAN : DeDrive(i, n)
    /\ UNCHANGED <<rest_vars, en_vars, pe_vars, rv_vars, hd_vars>>

InitDecoder == DeInit /\ EnIdle /\ PeIdle /\ RvIdle /\ HdIdle /\ RestIdle

SpecDecoder == InitDecoder /\ [][DeStep]_vars

\* ReversibleSpec: dec.i.eq(enc.o)
RvDrive(i) ==
    /\ rv_enc_i' = i
    /\ rv_enc_o' = GrayEncoder_o(i, rv_width)
    /\ rv_dec_o' = GrayDecoder_o(rv_enc_o', rv_width)
    /\ UNCHANGED rv_width

RvStep ==
    /\ \E i \in SUBSET Bits(rv_width) : RvDrive(i)
    /\ UNCHANGED <<rest_vars, en_vars, pe_vars, de_vars, hd_vars>>

InitReversible == RvInit /\ EnIdle /\ PeIdle /\ DeIdle /\ HdIdle /\ RestIdle

SpecReversible == InitReversible /\ [][RvStep]_vars

\* HammingDistanceSpec: Assume(enc1.i + 1 == enc2.i) keeps the pairs of
\* inputs whose numbers are one apart; enc1.i + 1 is one bit wider than
\* enc2.i, so the all-ones enc1.i has no partner.
HdDrive(i1, i2) ==
    /\ ToInt(i1) + 1 = ToInt(i2)
    /\ ToInt(i2) < 2 ^ hd_width
    /\ hd_enc1_i' = i1
    /\ hd_enc2_i' = i2
    /\ hd_enc1_o' = GrayEncoder_o(i1, hd_width)
    /\ hd_enc2_o' = GrayEncoder_o(i2, hd_width)
    /\ UNCHANGED hd_width

HdStep ==
    /\ \E i1 \in SUBSET Bits(hd_width) :
          \E i2 \in {FromInt(ToInt(i1) + 1, hd_width)} : HdDrive(i1, i2)
    /\ UNCHANGED <<rest_vars, en_vars, pe_vars, de_vars, rv_vars>>

InitHamming == HdInit /\ EnIdle /\ PeIdle /\ DeIdle /\ RvIdle /\ RestIdle

SpecHamming == InitHamming /\ [][HdStep]_vars

(***************************************************************************)
(* The constructors of PrioritySelector, RoundRobinEncoder,                *)
(* ProgPriorityArbiter and FairAmongEqualsArbiter, and the elaborate that  *)
(* follows a successful construction.  Signal is not part of these source  *)
(* files: Signal(width) of a positive int succeeds (every test does it),   *)
(* and of any other value it either raises or succeeds.  The arbiters'     *)
(* __init__ is taken as written, super().__init__(self, n_req).            *)
(***************************************************************************)
noncx_vars == <<ps_vars, rr_core, rr_hist, wk_vars, lost_vars, fa_vars,
                pp_vars, ra_vars, re_vars, ct_vars, cd_vars, id_vars>>

CxWidths == {Arg("int", v) : v \in -1 .. 2} \cup {Arg("str", 1), Arg("NoneType", 0)}

\* max_pri: None when omitted.
CxMaxPris == {Arg("NoneType", 0), Arg("str", 1)} \cup {Arg("int", v) : v \in -1 .. 2}

Signal_outcomes(width) ==
    IF width.type = "int" /\ width.val >= 1 THEN {"ok"} ELSE {"ok", "TypeError"}

\* PrioritySelector.__init__: self.i = Signal(width); self.o = Signal(width)
PrioritySelector_init(width, sig) == sig

\* RoundRobinEncoder.__init__: Signal(n_reqs); Signal(max=max(2, n_reqs)),
\* where max() of an int and a str or None raises TypeError; policy is only
\* compared with RobinPolicy.CE.
RoundRobinEncoder_init(n_reqs, policy, sig) ==
    IF sig = "TypeError" THEN "TypeError"
    ELSE IF n_reqs.type \in {"str", "NoneType"} THEN "TypeError"
    ELSE "ok"

\* RoundRobinEncoder.elaborate: robin = RoundRobinSelector(self.n_reqs, self.policy)
RoundRobinEncoder_elaborate(n_reqs, policy) == RoundRobinSelector_init(n_reqs, policy)

\* ArbiterInterface.__init__(self, n_req), called with nargs arguments
\* after self: any number but one is a TypeError of the call itself.
ArbiterInterface_init(nargs, n_req) ==
    IF nargs # 1 THEN "TypeError"
    ELSE IF ~isinstance(n_req, "int") \/ n_req.val < 1 THEN "TypeError"
    ELSE "ok"

\* ProgPriorityArbiter.__init__ and FairAmongEqualsArbiter.__init__ (the same
\* statements): super().__init__(self, n_req) passes two arguments after
\* the bound self; then max_pri defaults to n_req and is checked.
PriorityArbiters_init(n_req, max_pri) ==
    IF ArbiterInterface_init(2, n_req) = "TypeError"
    THEN [result |-> "TypeError", max_pri |-> 0]
    ELSE LET mp == IF max_pri.type = "NoneType" THEN n_req ELSE max_pri
         IN  IF ~isinstance(mp, "int") \/ mp.val < 1
             THEN [result |-> "TypeError", max_pri |-> 0]
             ELSE [result |-> "ok", max_pri |-> mp.val]

CxCall(class, width, policy, max_pri, result, default) ==
    /\ cx_result = "none"
    /\ cx_class' = class
    /\ cx_width' = width
    /\ cx_policy' = policy
    /\ cx_max_pri' = max_pri
    /\ cx_result' = result
    /\ cx_default' = default
    /\ UNCHANGED cx_elab

CxPrioritySelector ==
    /\ \E width \in CxWidths : \E sig \in Signal_outcomes(width) :
          CxCall("PrioritySelector", width, Arg("NoneType", "None"), Arg("NoneType", 0),
                 PrioritySelector_init(width, sig), 0)
    /\ UNCHANGED noncx_vars

CxRoundRobinEncoder ==
    /\ \E n_reqs \in CxWidths, policy \in CtorPolicies :
          \E sig \in Signal_outcomes(n_reqs) :
             CxCall("RoundRobinEncoder", n_reqs, policy, Arg("NoneType", 0),
                    RoundRobinEncoder_init(n_reqs, policy, sig), 0)
    /\ UNCHANGED noncx_vars

CxProgPriorityArbiter ==
    /\ \E n_req \in CxWidths, max_pri \in CxMaxPris :
          LET r == PriorityArbiters_init(n_req, max_pri)
          IN  CxCall("ProgPriorityArbiter", n_req, Arg("NoneType", "None"), max_pri,
                     r.result, r.max_pri)
    /\ UNCHANGED noncx_vars

CxFairAmongEqualsArbiter ==
    /\ \E n_req \in CxWidths, max_pri \in CxMaxPris :
          LET r == PriorityArbiters_init(n_req, max_pri)
          IN  CxCall("FairAmongEqualsArbiter", n_req, Arg("NoneType", "None"), max_pri,
                     r.result, r.max_pri)
    /\ UNCHANGED noncx_vars

\* elaborate of a constructed instance.  PrioritySelector.elaborate has no
\* call that checks anything.
CxElaborate ==
    /\ cx_result = "ok"
    /\ cx_elab = "none"
    /\ cx_class \in {"PrioritySelector", "RoundRobinEncoder"}
    /\ cx_elab' = (IF cx_class = "RoundRobinEncoder"
                   THEN RoundRobinEncoder_elaborate(cx_width, cx_policy)
                   ELSE "ok")
    /\ UNCHANGED <<cx_class, cx_width, cx_policy, cx_max_pri, cx_result, cx_default>>
    /\ UNCHANGED noncx_vars

CxNext ==
    \/ CxPrioritySelector
    \/ CxRoundRobinEncoder
    \/ CxProgPriorityArbiter
    \/ CxFairAmongEqualsArbiter
    \/ CxElaborate

InitCx == RestIdle /\ CdIdle

SpecCx == InitCx /\ [][CxNext]_vars

(***************************************************************************)
(* Properties of RoundRobinSelector (checked under SpecRR).                *)
(***************************************************************************)
OneHot(v) == Cardinality(v) = 1

Min(S) == CHOOSE x \in S : \A y \in S : x <= y

\* The index held in a one-hot vector.
IndexOf(v) == CHOOSE k \in v : TRUE

\* The winner of the rotation stated independently of the smear: lowest
\* request strictly above k if any, else lowest request overall.
RotationWinner(R, last) ==
    IF last = {} THEN Min(R)
    ELSE LET above == {b \in R : b > IndexOf(last)}
         IN  IF above # {} THEN Min(above) ELSE Min(R)

\* C1: on every tick on which a new round runs (en true: the enable input
\* under CE, lastGrant AND request zero under WITHDRAW) with a nonzero
\* request, the grant is one-hot at the lowest request strictly above the
\* index in lastGrant if there is one, else at the lowest request overall;
\* with lastGrant zero it is one-hot at the lowest request.
C1_Rotation ==
    (rr_ticks >= 1 /\ rr_en /\ rr_i # {}) =>
        rr_o = {RotationWinner(rr_i, rr_grant_prev_t)}

\* C1 witness: a round that wraps around (requests only at or below lastGrant).
C1_Witness ==
    /\ rr_ticks >= 1 /\ rr_en /\ rr_i # {} /\ rr_grant_prev_t # {}
    /\ \A b \in rr_i : b <= IndexOf(rr_grant_prev_t)
    /\ Cardinality(rr_i) >= 2
    /\ rr_o = {Min(rr_i)}

\* C2: in every reachable state, under both policies, the grant output and
\* the lastGrant register have at most one bit set.
C2_AtMostOneHot ==
    /\ Cardinality(rr_o) <= 1
    /\ Cardinality(rr_grant_prev) <= 1

\* C2 witness: several requesters asserted, exactly one granted and latched.
C2_Witness ==
    /\ rr_ticks >= 1
    /\ Cardinality(rr_i) >= 2
    /\ OneHot(rr_o) /\ OneHot(rr_grant_prev)

\* C3: under WITHDRAW, if requester r was granted on the tick before and
\* request[r] is still asserted on this tick, the grant is exactly bit r and
\* lastGrant is left unchanged, whatever the other request bits are.
C3_WithdrawHold ==
    (rr_policy = "WITHDRAW" /\ rr_ticks >= 2) =>
        \A r \in rr_o_last :
            r \in rr_i => (rr_o = {r} /\ rr_grant_prev = rr_grant_prev_t)

\* C3 witness: the grantee keeps requesting while another requester, which
\* the rotation would prefer, is asserted as well.
C3_Witness ==
    /\ rr_policy = "WITHDRAW" /\ rr_ticks >= 2
    /\ rr_o_last # {} /\ rr_o_last \subseteq rr_i
    /\ \E b \in rr_i : b > IndexOf(rr_o_last)
    /\ rr_o = rr_o_last

\* C5: under CE, on every tick where enable is false the grant equals
\* lastGrant and the grant of the tick before, and lastGrant is unchanged at
\* the next tick, whatever the request vector is.
C5_CEFreeze ==
    (rr_policy = "CE" /\ rr_ticks >= 1 /\ ~rr_en) =>
        /\ rr_o = rr_grant_prev_t
        /\ rr_ticks >= 2 => rr_o = rr_o_last
        /\ rr_grant_prev = rr_grant_prev_t

\* C5 witness: enable low while the requests changed and a fresh round
\* would have granted somebody else.
C5_Witness ==
    /\ rr_policy = "CE" /\ rr_ticks >= 2 /\ ~rr_en
    /\ rr_i # rr_i_last
    /\ rr_o # {}
    /\ rr_grant(rr_i, rr_grant_prev_t, rr_n_reqs) # rr_o

\* C6 as stated: under CE, if the grant differs from the grant of the tick
\* before, enable was asserted on the tick before.
C6_ChangeAfterEnable ==
    (rr_policy = "CE" /\ rr_ticks >= 2 /\ rr_o # rr_o_last) => rr_en_last

\* C6 amended: under CE, if the grant differs from the grant of the tick
\* before, enable is asserted on this very tick.
C6_ChangeOnEnable ==
    (rr_policy = "CE" /\ rr_ticks >= 2 /\ rr_o # rr_o_last) => rr_en

\* C6 witness: the grant changes on a tick with enable high that follows a
\* tick with enable low.
C6_Witness ==
    /\ rr_policy = "CE" /\ rr_ticks >= 2
    /\ rr_o # rr_o_last /\ rr_en /\ ~rr_en_last

\* C7: under CE, on a tick with enable asserted the requester held in
\* lastGrant is granted again only if it is the only requester asserted; and
\* with enable high on two consecutive ticks and the same two requesters
\* asserted on both, the two grants are the two different requesters.
C7_CERegrant ==
    (rr_policy = "CE" /\ rr_ticks >= 1 /\ rr_en) =>
        /\ \A k \in rr_grant_prev_t : k \in rr_o => rr_i = {k}
        /\ (rr_ticks >= 2 /\ rr_en_last /\ rr_i = rr_i_last /\ Cardinality(rr_i) = 2) =>
               /\ OneHot(rr_o) /\ OneHot(rr_o_last)
               /\ rr_o \subseteq rr_i /\ rr_o_last \subseteq rr_i
               /\ rr_o # rr_o_last

\* C7 witness: two requesters held asserted over two enabled ticks, the
\* grant moving from the higher back to the lower one.
C7_Witness ==
    /\ rr_policy = "CE" /\ rr_ticks >= 2 /\ rr_en /\ rr_en_last
    /\ rr_i = rr_i_last /\ Cardinality(rr_i) = 2
    /\ rr_o_last # {} /\ rr_o = {Min(rr_i)} /\ rr_o # rr_o_last

(***************************************************************************)
(* Properties checked under SpecWalk and SpecLost.                         *)
(***************************************************************************)

\* C4: under WITHDRAW with width >= 2, from an idle tick: request[i] alone
\* is granted in that tick; adding request[j], j = (i+1) mod width, keeps
\* the grant at i; dropping request[i] grants j in that same tick; dropping
\* request[j] gives grant 0 in that same tick.
C4_WithdrawWalk ==
    /\ wk_phase = 2 => rr_o = {wk_i}
    /\ wk_phase = 3 => rr_o = {wk_i}
    /\ wk_phase = 4 => rr_o = {WalkJ}
    /\ wk_phase = 5 => rr_o = {}

\* C4 witness: a whole walk done with i the top index, so that j wraps to 0.
C4_Witness ==
    /\ wk_phase = 5 /\ rr_n_reqs >= 3
    /\ wk_i = rr_n_reqs - 1 /\ WalkJ = 0
    /\ rr_o = {}

\* C8: under either policy, a requester that stays asserted is never passed
\* over in N rounds in a row (N the width): it is granted at least once
\* within any N consecutive rounds.
C8_NoStarvation ==
    \A r \in Bits(rr_n_reqs) : rr_lost[r] <= rr_n_reqs - 1

\* C8 witness: a requester that lost N-1 rounds in a row while it stayed
\* asserted is granted in the N-th round.
C8_Witness ==
    /\ rr_n_reqs >= 3
    /\ rr_en /\ rr_o # {}
    /\ rr_waited = rr_n_reqs - 1

(***************************************************************************)
(* Properties checked under SpecFair and SpecPSel.                         *)
(***************************************************************************)

\* C9: a requester of FairAmongEqualsArbiter whose request stays asserted is
\* granted at least once within N consecutive ticks, whatever the priority
\* levels are: it never loses N ticks in a row.
C9_FairNoStarvation ==
    \A r \in Bits(fa_n_req) : fa_lost[r] <= fa_n_req - 1

\* C10: the output of PrioritySelector is zero if the input is zero, and
\* otherwise has exactly one bit set, at the lowest set index of the input;
\* the output is nonzero iff the input is.
C10_PrioritySelector ==
    /\ ps_i = {} => ps_o = {}
    /\ ps_i # {} => ps_o = {Min(ps_i)}
    /\ (ps_o # {}) <=> (ps_i # {})

\* C10 witness: several bits set, the lowest of them not bit 0.
C10_Witness ==
    /\ Cardinality(ps_i) >= 3
    /\ 0 \notin ps_i
    /\ ps_o = {Min(ps_i)}

(***************************************************************************)
(* Further properties of RoundRobinSelector (checked under SpecRR).        *)
(***************************************************************************)

\* C11 as stated: on every tick an all-zero request vector yields an
\* all-zero grant, ticks with enable low under CE included.
C11_IdleAlways ==
    (rr_ticks >= 1 /\ rr_i = {}) => rr_o = {}

\* C11 amended: on every tick on which a round runs (under WITHDRAW every
\* tick with no request is one; under CE the ticks with enable asserted) an
\* all-zero request vector yields an all-zero grant.
C11_IdleRound ==
    (rr_ticks >= 1 /\ rr_i = {} /\ (rr_policy = "WITHDRAW" \/ rr_en)) => rr_o = {}

\* C11 witness: an idle round that follows a grant.
C11_Witness ==
    /\ rr_ticks >= 2 /\ rr_i = {} /\ rr_en
    /\ rr_grant_prev_t # {} /\ rr_o = {}

\* C12: every set bit of the grant is set in the request vector of the same
\* tick: under WITHDRAW on every tick, under CE on every tick with enable
\* asserted.
C12_GrantImpliesRequest ==
    (rr_ticks >= 1 /\ (rr_policy = "WITHDRAW" \/ rr_en)) => rr_o \subseteq rr_i

\* C12 witness: a hold tick under WITHDRAW on which the requests changed
\* and the grantee is still among them.
C12_Witness ==
    /\ rr_policy = "WITHDRAW" /\ rr_ticks >= 2 /\ ~rr_en
    /\ rr_i # rr_i_last /\ rr_o # {} /\ rr_o \subseteq rr_i

\* The grant as a function of the inputs of the tick and of lastGrant as of
\* the tick, stated without the datapath.
InCycleGrant(R, en, last) ==
    IF ~en THEN last
    ELSE IF R = {} THEN {}
    ELSE {RotationWinner(R, last)}

\* C17: the grant of a tick is a function of the request and enable of that
\* tick and of lastGrant as of that tick only; the update of lastGrant
\* decided on a tick is not seen by the grant of that tick, it is the value
\* of the register after the tick; and from the second tick on lastGrant
\* equals the grant of the tick before.
C17_InCycle ==
    rr_ticks >= 1 =>
        /\ rr_o = InCycleGrant(rr_i, rr_en, rr_grant_prev_t)
        /\ rr_grant_prev = rr_o
        /\ rr_ticks >= 2 => rr_grant_prev_t = rr_o_last

\* C17 witness: a request that appears on a tick is granted on that tick,
\* while lastGrant as of the tick still holds the grant of the tick before.
C17_Witness ==
    /\ rr_ticks >= 2 /\ rr_en
    /\ rr_o # {} /\ rr_o # rr_o_last /\ rr_o_last # {}
    /\ ~(rr_o \subseteq rr_i_last)
    /\ rr_grant_prev_t = rr_o_last /\ rr_grant_prev = rr_o

(***************************************************************************)
(* Properties of ProgPriorityArbiter (checked under SpecProg) and of       *)
(* FairAmongEqualsArbiter (checked under SpecFair).                        *)
(***************************************************************************)
\* The asserted requesters at the numerically lowest level that has one.
WinningTier(R, pri) == {r \in R : \A q \in R : pri[r] <= pri[q]}

\* C13: the grant of ProgPriorityArbiter is zero when no request is
\* asserted, and otherwise one-hot at the lowest index among the asserted
\* requesters of the numerically lowest level that has an asserted requester.
C13_ProgTiering ==
    /\ pp_i = {} => pp_o = {}
    /\ pp_i # {} => pp_o = {Min(WinningTier(pp_i, pp_pri))}

\* C14: between two evaluations of ProgPriorityArbiter with the same request
\* vector whose priority arrays differ only at one requester that the first
\* evaluation did not grant, the grant is the same unless that requester's
\* new level is the winning tier of the second evaluation.
C14_ProgLoserInsensitive ==
    [][\A r \in Bits(pp_n_req) :
          (/\ pp_i' = pp_i
           /\ r \notin pp_o
           /\ \A q \in Bits(pp_n_req) \ {r} : pp_pri'[q] = pp_pri[q]
           /\ ~(pp_i' # {} /\ \A q \in pp_i' : pp_pri'[r] <= pp_pri'[q]))
          => pp_o' = pp_o]_pp_vars

\* C15: on every tick the grant of FairAmongEqualsArbiter is the rotation
\* applied to the winning tier (the asserted requesters at the numerically
\* lowest active level) relative to the index in lastGrant, whether or not
\* that index is in the winning tier; so the grant is zero or a member of the
\* winning tier; and the grant is committed to lastGrant on every tick.
C15_FairGrant ==
    [][LET W == WinningTier(fa_i', fa_pri')
       IN  /\ fa_o' = (IF W = {} THEN {} ELSE {RotationWinner(W, fa_grant_prev)})
           /\ fa_o' \subseteq W
           /\ fa_grant_prev' = fa_o']_fa_vars

\* C16: when the winning tier of a tick is the same nonempty set S as on the
\* tick before, the grant moves from the member of S granted on the tick
\* before to the next member of S in ascending index order with wraparound.
C16_FairRotation ==
    [][LET S == WinningTier(fa_i', fa_pri')
       IN  (S # {} /\ S = WinningTier(fa_i, fa_pri)) =>
               /\ OneHot(fa_o) /\ fa_o \subseteq S
               /\ fa_o' = {RotationWinner(S, fa_o)}]_fa_vars

(***************************************************************************)
(* RoundRobinArbiter against RoundRobinSelector (checked under SpecEquiv). *)
(***************************************************************************)
\* C18: for the same width, policy and input sequence the grant output of
\* RoundRobinArbiter equals that of RoundRobinSelector on every tick, hold
\* ticks included, where it is lastGrant in the same tick.
C18_ArbiterEqualsSelector ==
    /\ ra_o = rr_o
    /\ ra_grant_prev = rr_grant_prev
    /\ (rr_ticks >= 1 /\ ~rr_en) => ra_o = rr_grant_prev_t

(***************************************************************************)
(* RoundRobinEncoder (checked under SpecEnc).                              *)
(***************************************************************************)
\* C19: on every tick the flag n of RoundRobinEncoder is 1 exactly when the
\* grant of the RoundRobinSelector of the same width, policy and inputs is
\* all-zero, and then o is 0; otherwise n is 0 and o is the index of the
\* single set bit of that grant.
C19_EncodedGrant ==
    /\ re_n <=> (rr_o = {})
    /\ rr_o = {} => re_o = 0
    /\ rr_o # {} => rr_o = {re_o}

\* C19 witness: a CE hold tick with no request on which the retained grant,
\* at an index other than 0, is encoded with n low.
C19_Witness ==
    /\ rr_ticks >= 2 /\ ~rr_en /\ rr_i = {}
    /\ ~re_n /\ re_o >= 1 /\ rr_o = {re_o}

(***************************************************************************)
(* Construction of RoundRobinSelector (checked under SpecCtor).            *)
(***************************************************************************)
\* C20: constructing RoundRobinSelector with a width that is not a positive
\* integer or with a policy that is not a RobinPolicy member raises
\* TypeError and leaves no instance; constructing it with width 1 and
\* RobinPolicy.WITHDRAW succeeds.
C20_CtorValidation ==
    ct_result # "none" =>
        /\ (\/ ct_n_reqs.type \notin {"int", "bool"}
            \/ ct_n_reqs.val < 1
            \/ ct_policy.type # "RobinPolicy")
               => (ct_result = "TypeError" /\ NoInstance)
        /\ (ct_n_reqs = Arg("int", 1) /\ ct_policy = Arg("RobinPolicy", "WITHDRAW"))
               => (ct_result = "ok" /\ rr_n_reqs = 1 /\ rr_policy = "WITHDRAW")

\* C20 witness: width 0 with a valid policy was refused.
C20_Witness ==
    /\ ct_n_reqs = Arg("int", 0)
    /\ ct_policy.type = "RobinPolicy"
    /\ ct_result = "TypeError"
    /\ NoInstance

(***************************************************************************)
(* The coders: Encoder (SpecEncoder), PriorityEncoder                      *)
(* (SpecPriorityEncoder), Decoder (SpecDecoder), the Gray coders           *)
(* (SpecReversible, SpecHamming).                                          *)
(***************************************************************************)
\* C22: for every width and every input of Encoder, if exactly one bit of i
\* is set then n is 0 and o is the index of that bit; otherwise (no bit or
\* more than one bit set) n is 1 and o is 0.
C22_Encoder ==
    /\ Cardinality(en_i) = 1 => (~en_n /\ en_i = {en_o})
    /\ Cardinality(en_i) # 1 => (en_n /\ en_o = 0)

\* C22 witness: an input with several bits set, none of them bit 0, is
\* reported through n with o at 0.
C22_Witness ==
    /\ Cardinality(en_i) >= 2 /\ 0 \notin en_i
    /\ en_n /\ en_o = 0

\* C23: for every width and every input of PriorityEncoder, n is 1 exactly
\* when i is all-zero; o is the index of the least significant set bit of a
\* nonzero i, and 0 when i is zero.
C23_PriorityEncoder ==
    /\ pe_n <=> (pe_i = {})
    /\ pe_i # {} => pe_o = Min(pe_i)
    /\ pe_i = {} => pe_o = 0

\* C23 witness: several bits set, the lowest of them above bit 0.
C23_Witness ==
    /\ Cardinality(pe_i) >= 2 /\ 0 \notin pe_i
    /\ ~pe_n /\ pe_o = Min(pe_i)

\* C24 as stated: for every width and every value of the index input i of
\* Decoder, with n low exactly bit i of o is set, and with n high o is 0.
C24_DecoderAnyIndex ==
    /\ ~de_n => de_o = {de_i}
    /\ de_n => de_o = {}

\* C24 amended: with n low and i below the width exactly bit i of o is set;
\* with n low and i at or above the width (a value the index Signal holds
\* when the width is 1 or not a power of two) o is 0; with n high o is 0.
C24_Decoder ==
    /\ (~de_n /\ de_i < de_width) => de_o = {de_i}
    /\ (~de_n /\ de_i >= de_width) => de_o = {}
    /\ de_n => de_o = {}

\* C24 witness: n low and an index at or above the width decode to 0.
C24_Witness ==
    /\ ~de_n /\ de_i >= de_width /\ de_width >= 3
    /\ de_o = {}

\* C25: for every width and every value x, GrayDecoder fed the output of
\* GrayEncoder gives x back, and the output of GrayEncoder is x XOR (x >> 1).
C25_GrayRoundTrip ==
    /\ rv_dec_o = rv_enc_i
    /\ LET x == ToInt(rv_enc_i)
       IN  rv_enc_o = {b \in Bits(rv_width) :
                         ((x \div (2 ^ b)) + (x \div (2 ^ (b + 1)))) % 2 = 1}

\* C25 witness: a value of several bits whose code differs from it.
C25_Witness ==
    /\ rv_width >= 3 /\ Cardinality(rv_enc_i) >= 2
    /\ rv_enc_o # rv_enc_i
    /\ rv_dec_o = rv_enc_i

\* C26: for every width and every pair of values x and x + 1 of that width,
\* the outputs of GrayEncoder for x and for x + 1 differ in exactly one bit.
C26_GrayAdjacent ==
    ToInt(hd_enc1_i) + 1 = ToInt(hd_enc2_i) =>
        Cardinality(Xor(hd_enc1_o, hd_enc2_o)) = 1

\* C26 witness: a step whose carry runs through three bits (7 to 8).
C26_Witness ==
    /\ hd_enc1_i = {0, 1, 2} /\ hd_enc2_i = {3}
    /\ Cardinality(Xor(hd_enc1_o, hd_enc2_o)) = 1

(***************************************************************************)
(* Idle rounds of RoundRobinSelector (checked under SpecIdle).             *)
(***************************************************************************)
\* C27: whenever a round of RoundRobinSelector runs with an all-zero request
\* (WITHDRAW: any tick with no request; CE: enable with no request),
\* lastGrant is committed to zero, and the next round with a request grants
\* the lowest asserted requester whatever was granted before the idle round.
C27_IdleForgets ==
    /\ (rr_ticks >= 1 /\ rr_en /\ rr_i = {}) => rr_grant_prev = {}
    /\ (rr_ticks >= 1 /\ rr_policy = "WITHDRAW" /\ rr_i = {}) => rr_en
    /\ id_idle => rr_grant_prev = {}
    /\ (rr_ticks >= 1 /\ rr_en /\ rr_i # {} /\ id_idle_t) => rr_o = {Min(rr_i)}

\* C27 witness: the round after an idle round grants the lowest requester
\* although the rotation from the grant the idle round overwrote would have
\* granted a higher one.
C27_Witness ==
    /\ rr_ticks >= 2 /\ rr_en /\ rr_i # {} /\ id_idle_t
    /\ id_forgot_t # {}
    /\ RotationWinner(rr_i, id_forgot_t) # Min(rr_i)
    /\ rr_o = {Min(rr_i)}

(***************************************************************************)
(* Construction of the other components (checked under SpecCx).            *)
(***************************************************************************)
\* A width below 1 or not an integer, a policy that is not a RobinPolicy
\* member, or a max_pri that is given and is below 1 or not an integer.
CxInvalid ==
    \/ ~(cx_width.type = "int" /\ cx_width.val >= 1)
    \/ cx_class = "RoundRobinEncoder" /\ cx_policy.type # "RobinPolicy"
    \/ /\ cx_class \in {"ProgPriorityArbiter", "FairAmongEqualsArbiter"}
       /\ cx_max_pri.type # "NoneType"
       /\ ~(cx_max_pri.type = "int" /\ cx_max_pri.val >= 1)

\* C21: construction of PrioritySelector, RoundRobinEncoder,
\* ProgPriorityArbiter and FairAmongEqualsArbiter fails, at construction and
\* not at elaboration, if and only if a parameter is invalid; with valid
\* parameters it succeeds, and an omitted max_pri defaults to the width.
C21_EagerValidation ==
    cx_result # "none" =>
        /\ (cx_result = "TypeError") <=> CxInvalid
        /\ cx_elab # "TypeError"
        /\ (/\ cx_result = "ok"
            /\ cx_class \in {"ProgPriorityArbiter", "FairAmongEqualsArbiter"}
            /\ cx_max_pri.type = "NoneType") => cx_default = cx_width.val

====
